---- MODULE Spec2Model ----
(***************************************************************************)
(* Model of "source/server configuration.js" of universal-webpack:         *)
(* configuration() (loader-chain rewriting, installation of the externals  *)
(* hook), parse_loader / stringify_loader / is_style_loader and            *)
(* is_external.                                                            *)
(*                                                                         *)
(* A javascript string is a sequence of one-character strings, so that     *)
(* indexOf, substring and split are computed and not assumed.  A value     *)
(* that may be undefined is a record with a "kind" field.                  *)
(***************************************************************************)
EXTENDS Integers, Sequences, FiniteSets, TLC

\* ------------------------------------------------------------------------
\* Bounds
\* ------------------------------------------------------------------------

\* longest loader chain ('!'-separated segments, or elements of `loaders`)
MaxChain == 3

\* longest exclude_from_externals list
MaxExcl == 2

\* most key=value pairs in a loader query given to stringify_loader
MaxQuery == 2

\* ------------------------------------------------------------------------
\* Javascript values
\* ------------------------------------------------------------------------

Undefined == [kind |-> "undefined"]

Str(s) == [kind |-> "string", s |-> s]

Arr(items) == [kind |-> "array", items |-> items]

\* a query mapping: the own keys in insertion order, each with its values
\* (one value: a string; several values: an array of strings)
QueryObject(kv) == [kind |-> "object", kv |-> kv]

\* a loader given as an object { loader, query }
LoaderObject(name, query) == [kind |-> "loader", loader |-> name, query |-> query]

\* javascript truthiness of the values above
Truthy(v) ==
  CASE v.kind = "undefined" -> FALSE
    [] v.kind = "string" -> v.s # <<>>
    [] OTHER -> TRUE

is_object(v) == v.kind \in {"object", "loader", "array"}

\* ------------------------------------------------------------------------
\* String.prototype
\* ------------------------------------------------------------------------

Min(S) == CHOOSE x \in S : \A y \in S : x <= y

\* the value of a singleton set; The({e(v) : v \in {d}}) is e with v bound
\* to the value of d, which is then evaluated once
The(S) == CHOOSE x \in S : TRUE

\* the 0-based positions at which sub occurs in s
Occurrences(s, sub) ==
  {i \in 0..(Len(s) - Len(sub)) : SubSeq(s, i + 1, i + Len(sub)) = sub}

\* s.indexOf(sub): 0-based, -1 when absent
IndexOf(s, sub) ==
  IF \E i \in 0..(Len(s) - Len(sub)) : SubSeq(s, i + 1, i + Len(sub)) = sub
  THEN CHOOSE i \in 0..(Len(s) - Len(sub)) :
         /\ SubSeq(s, i + 1, i + Len(sub)) = sub
         /\ \A j \in 0..(i - 1) : SubSeq(s, j + 1, j + Len(sub)) # sub
  ELSE -1

\* s.lastIndexOf(sub)
LastIndexOf(s, sub) ==
  IF \E i \in 0..(Len(s) - Len(sub)) : SubSeq(s, i + 1, i + Len(sub)) = sub
  THEN CHOOSE i \in 0..(Len(s) - Len(sub)) :
         /\ SubSeq(s, i + 1, i + Len(sub)) = sub
         /\ \A j \in (i + 1)..(Len(s) - Len(sub)) : SubSeq(s, j + 1, j + Len(sub)) # sub
  ELSE -1

Clamp(i, n) == IF i < 0 THEN 0 ELSE IF i > n THEN n ELSE i

\* s.substring(a, b): both indexes are clamped to the string and the
\* smaller one is the start
Substring(s, a, b) ==
  SubSeq(s, Clamp(IF a <= b THEN a ELSE b, Len(s)) + 1,
            Clamp(IF a <= b THEN b ELSE a, Len(s)))

\* s.substring(a)
SubstringFrom(s, a) == Substring(s, a, Len(s))

RECURSIVE Split(_, _)
\* s.split(sep), sep non-empty
Split(s, sep) ==
  The({IF i < 0
       THEN <<s>>
       ELSE <<Substring(s, 0, i)>> \o Split(SubstringFrom(s, i + Len(sep)), sep) :
       i \in {IndexOf(s, sep)}})

RECURSIVE Join(_, _)
\* parts.join(sep)
Join(parts, sep) ==
  IF parts = <<>> THEN <<>>
  ELSE IF Len(parts) = 1 THEN parts[1]
  ELSE parts[1] \o sep \o Join(Tail(parts), sep)

\* helpers.js
starts_with(s, sub) == Len(sub) <= Len(s) /\ SubSeq(s, 1, Len(sub)) = sub

ends_with(s, sub) ==
  Len(sub) <= Len(s) /\ SubSeq(s, Len(s) - Len(sub) + 1, Len(s)) = sub

\* ------------------------------------------------------------------------
\* String literals of the source
\* ------------------------------------------------------------------------

STYLE == <<"s", "t", "y", "l", "e">>

DASH_LOADER == <<"-", "l", "o", "a", "d", "e", "r">>

FAKE_STYLE_LOADER == <<"f", "a", "k", "e", "-">> \o STYLE \o DASH_LOADER

EXTRACT_TEXT_MARKER ==
  <<"e", "x", "t", "r", "a", "c", "t", "-", "t", "e", "x", "t", "-",
    "w", "e", "b", "p", "a", "c", "k", "-", "p", "l", "u", "g", "i", "n",
    "/", "l", "o", "a", "d", "e", "r", ".", "j", "s">>

BANG == <<"!">>

QUESTION == <<"?">>

SLASH == <<"/">>

\* ------------------------------------------------------------------------
\* querystring
\* ------------------------------------------------------------------------

\* querystring.escape of one character: everything but the unreserved
\* characters is percent-encoded
EscapeChar(c) ==
  CASE c = " " -> <<"%", "2", "0">>
    [] c = "%" -> <<"%", "2", "5">>
    [] c = "&" -> <<"%", "2", "6">>
    [] c = "+" -> <<"%", "2", "B">>
    [] c = "/" -> <<"%", "2", "F">>
    [] c = "=" -> <<"%", "3", "D">>
    [] c = "?" -> <<"%", "3", "F">>
    [] OTHER -> <<c>>

RECURSIVE QsEscape(_)
QsEscape(s) ==
  IF s = <<>> THEN <<>> ELSE EscapeChar(Head(s)) \o QsEscape(Tail(s))

\* the character a percent triplet decodes to, "" when the model has none
DecodeTriplet(t) ==
  CASE t = <<"%", "2", "0">> -> " "
    [] t = <<"%", "2", "5">> -> "%"
    [] t = <<"%", "2", "6">> -> "&"
    [] t = <<"%", "2", "B">> -> "+"
    [] t = <<"%", "2", "F">> -> "/"
    [] t = <<"%", "3", "D">> -> "="
    [] t = <<"%", "3", "F">> -> "?"
    [] OTHER -> ""

RECURSIVE QsUnescape(_)
\* querystring.unescape after '+' has been turned into a space
QsUnescape(s) ==
  IF s = <<>> THEN <<>>
  ELSE IF Head(s) = "+" THEN <<" ">> \o QsUnescape(Tail(s))
  ELSE The({IF c # ""
            THEN <<c>> \o QsUnescape(SubSeq(s, 4, Len(s)))
            ELSE <<Head(s)>> \o QsUnescape(Tail(s)) :
            c \in {IF Head(s) = "%" /\ Len(s) >= 3
                   THEN DecodeTriplet(SubSeq(s, 1, 3)) ELSE ""}})

\* adds one parsed key=value to the mapping; a repeated key collects its
\* values in an array at the key's first position
QsAdd(kv, k, v) ==
  IF \E i \in 1..Len(kv) : kv[i].k = k
  THEN [i \in 1..Len(kv) |->
          IF kv[i].k = k THEN [k |-> k, v |-> Append(kv[i].v, v)] ELSE kv[i]]
  ELSE Append(kv, [k |-> k, v |-> <<v>>])

RECURSIVE QsParseParts(_, _)
\* the '&'-separated parts one after the other: key before the first '=',
\* value after it; empty parts are skipped
QsParseParts(parts, kv) ==
  IF parts = <<>> THEN kv
  ELSE IF Head(parts) = <<>> THEN QsParseParts(Tail(parts), kv)
  ELSE The({QsParseParts(Tail(parts),
              QsAdd(kv,
                    QsUnescape(IF eq >= 0 THEN Substring(Head(parts), 0, eq) ELSE Head(parts)),
                    QsUnescape(IF eq >= 0 THEN SubstringFrom(Head(parts), eq + 1) ELSE <<>>))) :
            eq \in {IndexOf(Head(parts), <<"=">>)}})

\* querystring.parse(str)
QsParse(str) ==
  IF str = <<>> THEN QueryObject(<<>>)
  ELSE QueryObject(QsParseParts(Split(str, <<"&">>), <<>>))

RECURSIVE QsStringifyValues(_, _)
QsStringifyValues(k, vs) ==
  IF vs = <<>> THEN <<>>
  ELSE <<QsEscape(k) \o <<"=">> \o QsEscape(Head(vs))>> \o QsStringifyValues(k, Tail(vs))

RECURSIVE QsStringifyPairs(_)
QsStringifyPairs(kv) ==
  IF kv = <<>> THEN <<>>
  ELSE QsStringifyValues(Head(kv).k, Head(kv).v) \o QsStringifyPairs(Tail(kv))

\* querystring.stringify(obj)
QsStringify(obj) ==
  IF obj.kind = "object" THEN Join(QsStringifyPairs(obj.kv), <<"&">>) ELSE <<>>

\* ------------------------------------------------------------------------
\* parse_loader, stringify_loader, is_style_loader
\* ------------------------------------------------------------------------

\* the string branch of parse_loader: `name` is reassigned to the part
\* before the '?' and the query is then cut out of the reassigned `name`
parse_loader_string(loader) ==
  The({IF q < 0
       THEN [name |-> loader, query |-> Undefined]
       ELSE The({[name |-> name,
                  query |-> QsParse(SubstringFrom(name, IndexOf(name, QUESTION) + 1))] :
                 name \in {Substring(loader, 0, q)}}) :
       q \in {IndexOf(loader, QUESTION)}})

parse_loader(loader) ==
  IF is_object(loader)
  THEN [name |-> loader.loader, query |-> loader.query]
  ELSE parse_loader_string(loader.s)

stringify_loader(loader) ==
  loader.name \o (IF Truthy(loader.query)
                  THEN QUESTION \o QsStringify(loader.query)
                  ELSE <<>>)

is_style_loader(loader) ==
  The({(IF ends_with(name, DASH_LOADER)
        THEN Substring(name, 0, LastIndexOf(name, DASH_LOADER))
        ELSE name) = STYLE :
       name \in {parse_loader(loader).name}})

\* ------------------------------------------------------------------------
\* configuration(): the loop over module.loaders
\* ------------------------------------------------------------------------

RECURSIVE StrAll(_)
\* the strings of a split as javascript string values
StrAll(parts) ==
  IF parts = <<>> THEN <<>> ELSE <<Str(Head(parts))>> \o StrAll(Tail(parts))

\* loader.loaders.indexOf(element), 1-based
ArrayIndexOf(items, element) ==
  IF \E i \in 1..Len(items) : items[i] = element
  THEN CHOOSE i \in 1..Len(items) :
         items[i] = element /\ \A j \in 1..(i - 1) : items[j] # element
  ELSE 0

\* substitute_style_loader with the style loader removed from the chain
\* instead of replaced in it
substitute_style_loader_removing(items) ==
  SelectSeq(items, LAMBDA v : ~is_style_loader(v))

\* "Replace `style-loader` with `fake-style-loader`": the first element
\* that is a style loader is replaced where indexOf finds it
substitute_style_loader(items) ==
  The({IF styles # <<>> /\ Truthy(styles[1])
       THEN [items EXCEPT ![ArrayIndexOf(items, styles[1])] =
               Str(stringify_loader([name |-> FAKE_STYLE_LOADER,
                                     query |-> parse_loader(styles[1]).query]))]
       ELSE items :
       styles \in {SelectSeq(items, is_style_loader)}})

\* the body of the for loop for one element of module.loaders:
\* thrown is the error the element raises, entry the element afterwards
rewrite_loader(entry) ==
  IF ~Truthy(entry.loaders)
  THEN IF ~Truthy(entry.loader)
       THEN [thrown |-> "NoLoaderSpecified", entry |-> entry]
       ELSE IF IndexOf(entry.loader.s, EXTRACT_TEXT_MARKER) >= 0
       THEN [thrown |-> "none", entry |-> entry]
       ELSE [thrown |-> "none",
             entry |-> [loader |-> Undefined,
                        loaders |-> Arr(substitute_style_loader(
                                          StrAll(Split(entry.loader.s, BANG))))]]
  ELSE [thrown |-> "none",
        entry |-> [entry EXCEPT !.loaders = Arr(substitute_style_loader(entry.loaders.items))]]

RECURSIVE rewrite_loaders(_)
\* the whole for loop: the first element that raises aborts it
rewrite_loaders(entries) ==
  IF entries = <<>> THEN [thrown |-> "none", entries |-> <<>>]
  ELSE The({IF first.thrown # "none" THEN [thrown |-> first.thrown, entries |-> <<>>]
            ELSE IF rest.thrown # "none" THEN rest
            ELSE [thrown |-> "none", entries |-> <<first.entry>> \o rest.entries] :
            first \in {rewrite_loader(Head(entries))},
            rest \in {rewrite_loaders(Tail(entries))}})

\* configuration() checking the types of the exclusion patterns itself
configuration_validating(wc, st) ==
  IF ~wc.context
  THEN [thrown |-> "NoContext", value |-> Undefined]
  ELSE IF /\ st.exclude_from_externals.kind = "array"
          /\ \E i \in 1..Len(st.exclude_from_externals.items) :
               st.exclude_from_externals.items[i].kind \notin {"string", "regexp"}
  THEN [thrown |-> "InvalidExclusionPattern", value |-> Undefined]
  ELSE LET loop == rewrite_loaders(wc.loaders)
       IN IF loop.thrown # "none"
          THEN [thrown |-> loop.thrown, value |-> Undefined]
          ELSE [thrown |-> "none",
                value |-> [kind |-> "configuration",
                           target |-> "node",
                           externals |-> 1,
                           resolve |-> wc.resolve,
                           loaders |-> loop.entries]]

\* configuration(webpack_configuration, settings): thrown is the error it
\* raises, value the configuration it returns
configuration(wc, st) ==
  IF ~wc.context
  THEN [thrown |-> "NoContext", value |-> Undefined]
  ELSE The({IF loop.thrown # "none"
            THEN [thrown |-> loop.thrown, value |-> Undefined]
            ELSE [thrown |-> "none",
                  value |-> [kind |-> "configuration",
                             target |-> "node",
                             externals |-> 1,
                             resolve |-> wc.resolve,
                             loaders |-> loop.entries]] :
            loop \in {rewrite_loaders(wc.loaders)}})

\* ------------------------------------------------------------------------
\* is_external
\* ------------------------------------------------------------------------

\* validate_npm_package_path(name).validForNewPackages on the characters of
\* the model: not empty, no leading '.' or '_', lower case and URL-friendly
UrlFriendlyLowerCase == {"a", "b", ".", "-", "_"}

validForNewPackages(name) ==
  /\ name # <<>>
  /\ Head(name) \notin {".", "_"}
  /\ \A i \in 1..Len(name) : name[i] \in UrlFriendlyLowerCase

\* a regular expression with a literal source; flags "", "g" or "y"
RegExp(source, flags) == [kind |-> "regexp", source |-> source, flags |-> flags]

\* RegExp.prototype.test(s) of a regular expression whose lastIndex is li:
\* result, and the lastIndex it leaves behind
RegExpTest(re, li, s) ==
  IF re.flags = ""
  THEN [result |-> IndexOf(s, re.source) >= 0, lastIndex |-> li]
  ELSE The({IF found = {}
            THEN [result |-> FALSE, lastIndex |-> 0]
            ELSE [result |-> TRUE, lastIndex |-> Min(found) + Len(re.source)] :
            found \in {{i \in Occurrences(s, re.source) :
                          IF re.flags = "g" THEN i >= li ELSE i = li}}})

package_name_of(request) ==
  IF IndexOf(request, SLASH) >= 0
  THEN Substring(request, 0, IndexOf(request, SLASH))
  ELSE request

\* the alias loop: some key of resolve.alias is the package name
is_alias(package_name, wc) ==
  /\ Truthy(wc.resolve)
  /\ Truthy(wc.resolve.alias)
  /\ \E alias \in wc.resolve.alias.keys : package_name = alias

\* exclusion_pattern with the string prefix rule missing its '/'
exclusion_pattern_without_slash(request, pattern, li) ==
  CASE pattern.kind = "string" ->
         [outcome |-> IF request = pattern.s \/ starts_with(request, pattern.s)
                      THEN "internal" ELSE "next",
          lastIndex |-> li]
    [] pattern.kind = "regexp" ->
         [outcome |-> IF RegExpTest(pattern, li, request).result
                      THEN "internal" ELSE "next",
          lastIndex |-> RegExpTest(pattern, li, request).lastIndex]
    [] OTHER -> [outcome |-> "throw", lastIndex |-> li]

\* one iteration of the exclusion loop on a pattern whose lastIndex is li
exclusion_pattern(request, pattern, li) ==
  CASE pattern.kind = "string" ->
         [outcome |-> IF request = pattern.s \/ starts_with(request, pattern.s \o SLASH)
                      THEN "internal" ELSE "next",
          lastIndex |-> li]
    [] pattern.kind = "regexp" ->
         The({[outcome |-> IF test.result THEN "internal" ELSE "next",
               lastIndex |-> test.lastIndex] :
              test \in {RegExpTest(pattern, li, request)}})
    [] OTHER -> [outcome |-> "throw", lastIndex |-> li]

RECURSIVE exclusion_loop(_, _, _, _)
\* the loop over settings.exclude_from_externals from position i on
exclusion_loop(request, patterns, i, li) ==
  IF i > Len(patterns) THEN [ret |-> "true", lastIndex |-> li]
  ELSE The({CASE step.outcome = "internal" ->
                   [ret |-> "false", lastIndex |-> [li EXCEPT ![i] = step.lastIndex]]
              [] step.outcome = "throw" ->
                   [ret |-> "throw", lastIndex |-> [li EXCEPT ![i] = step.lastIndex]]
              [] OTHER ->
                   exclusion_loop(request, patterns, i + 1,
                                  [li EXCEPT ![i] = step.lastIndex]) :
            step \in {exclusion_pattern(request, patterns[i], li[i])}})

\* is_external with the exclusion loop run before the alias check
is_external_exclusions_first(request, wc, st, li) ==
  IF ~validForNewPackages(package_name_of(request))
  THEN [ret |-> "false", lastIndex |-> li]
  ELSE LET excluded == IF Truthy(st.exclude_from_externals)
                       THEN exclusion_loop(request, st.exclude_from_externals.items, 1, li)
                       ELSE [ret |-> "true", lastIndex |-> li]
       IN IF excluded.ret # "true" THEN excluded
          ELSE IF is_alias(package_name_of(request), wc)
          THEN [ret |-> "false", lastIndex |-> excluded.lastIndex]
          ELSE excluded

\* is_external(request, webpack_configuration, settings) when the regular
\* expressions of the exclusion list have the lastIndex values li:
\* ret is "true", "false" or "throw"
is_external(request, wc, st, li) ==
  IF ~validForNewPackages(package_name_of(request))
  THEN [ret |-> "false", lastIndex |-> li]
  ELSE IF is_alias(package_name_of(request), wc)
  THEN [ret |-> "false", lastIndex |-> li]
  ELSE IF Truthy(st.exclude_from_externals)
  THEN exclusion_loop(request, st.exclude_from_externals.items, 1, li)
  ELSE [ret |-> "true", lastIndex |-> li]

Null == [kind |-> "null"]

\* the hook with the error of the classification handed to the callback
externals_hook_catching(request, ret) ==
  CASE ret = "true" -> [callbacks |-> << <<Null, Str(request)>> >>, thrown |-> "none"]
    [] ret = "false" -> [callbacks |-> << <<>> >>, thrown |-> "none"]
    [] OTHER -> [callbacks |-> << <<Str(<<"e", "r", "r", "o", "r">>)>> >>, thrown |-> "none"]

\* the function pushed to configuration.externals: the calls of `callback`
\* it makes, each with its arguments, and the error it throws
externals_hook(request, ret) ==
  CASE ret = "true" -> [callbacks |-> << <<Null, Str(request)>> >>, thrown |-> "none"]
    [] ret = "false" -> [callbacks |-> << <<>> >>, thrown |-> "none"]
    [] OTHER -> [callbacks |-> <<>>, thrown |-> "InvalidExclusionPattern"]

\* ------------------------------------------------------------------------
\* Inputs
\* ------------------------------------------------------------------------

\* the sequences over S of length at most n
SeqsUpTo(S, n) == UNION {[1..k -> S] : k \in 0..n}

STYLE_LOADER == STYLE \o DASH_LOADER

MODULES_TRUE == <<"m", "o", "d", "u", "l", "e", "s", "=", "t", "r", "u", "e">>

CSS_LOADER == <<"c", "s", "s">> \o DASH_LOADER

BABEL_LOADER == <<"b", "a", "b", "e", "l">> \o DASH_LOADER

\* the '!'-separated segments loader strings are made of
Segments ==
  {STYLE_LOADER \o QUESTION \o MODULES_TRUE, STYLE, STYLE_LOADER,
   CSS_LOADER, BABEL_LOADER, EXTRACT_TEXT_MARKER}

\* the elements of an already present `loaders` array
Elements ==
  {Str(s) : s \in Segments} \cup
  {LoaderObject(STYLE, QueryObject(<<[k |-> <<"a">>, v |-> << <<"b">> >>]>>))}

\* elements of module.loaders
LoaderEntries ==
  {[loader |-> Undefined, loaders |-> Undefined],
   [loader |-> Str(<<>>), loaders |-> Undefined]}
  \cup {[loader |-> Str(Join(c, BANG)), loaders |-> Undefined] :
          c \in SeqsUpTo(Segments, MaxChain) \ {<<>>}}
  \cup {[loader |-> Undefined, loaders |-> Arr(c)] : c \in SeqsUpTo(Elements, MaxChain)}

\* elements a module.loaders of two elements is made of
PairedEntries ==
  {[loader |-> Undefined, loaders |-> Undefined],
   [loader |-> Str(STYLE_LOADER \o BANG \o CSS_LOADER), loaders |-> Undefined],
   [loader |-> Str(EXTRACT_TEXT_MARKER \o BANG \o STYLE), loaders |-> Undefined],
   [loader |-> Undefined, loaders |-> Arr(<<Str(BABEL_LOADER)>>)]}

ModuleLoaders ==
  {<<>>} \cup {<<e>> : e \in LoaderEntries}
         \cup {<<e, f>> : e \in PairedEntries, f \in PairedEntries}

\* require() requests
Requests ==
  {<<>>, <<"a">>, <<"b">>, <<"A">>, <<".">>, <<"a", "b">>, <<"a", "/">>,
   <<"/", "a">>, <<"a", "/", "b">>, <<"b", "/", "a">>, <<"a", "b", "/", "a">>,
   <<".", "/", "a">>}

\* the values of webpack_configuration.resolve
Resolves ==
  {Undefined,
   [kind |-> "object", alias |-> Undefined],
   [kind |-> "object", alias |-> [kind |-> "object", keys |-> {}]],
   [kind |-> "object", alias |-> [kind |-> "object", keys |-> {<<"b">>}]]}

\* exclusion patterns: strings, regular expressions, and a number
Patterns ==
  {Str(<<"a">>), Str(<<"a", "/", "b">>),
   RegExp(<<"b">>, ""), RegExp(<<"a">>, "g"), RegExp(<<"b">>, "y"),
   [kind |-> "number", n |-> 42]}

ExclusionLists == {Undefined} \cup {Arr(l) : l \in SeqsUpTo(Patterns, MaxExcl)}

QueryKeys == {<<"m", "o", "d", "u", "l", "e", "s">>, <<"a">>, STYLE}

QueryValues == {<<"t", "r", "u", "e">>, <<>>, <<"a", "/", "b">>}

\* the query mappings with distinct keys and string values
Queries ==
  {QueryObject(kv) :
     kv \in {q \in SeqsUpTo({[k |-> k, v |-> <<v>>] : k \in QueryKeys, v \in QueryValues},
                            MaxQuery) :
               /\ q # <<>>
               /\ \A i, j \in 1..Len(q) : i # j => q[i].k # q[j].k}}

\* the { name, query } pairs given to stringify_loader
LoaderInfos == {[name |-> n, query |-> q] : n \in {STYLE, STYLE_LOADER, <<"a">>}, q \in Queries}

\* ------------------------------------------------------------------------
\* The state machine
\* ------------------------------------------------------------------------

VARIABLES
  webpack_configuration, \* the first argument of configuration()
  settings,              \* the second argument of configuration()
  pc,                    \* "start", "returned", "thrown"; "codec" for the codec run
  result,                \* what configuration() returned
  error,                 \* what configuration() threw
  lastIndex,             \* lastIndex of each exclusion pattern (of the regular expressions)
  hook,                  \* the last invocation of the externals hook
  h_lastIndex,           \* history: lastIndex when the last invocation started
  codec_in,              \* a { name, query } pair
  codec_out              \* parse_loader(stringify_loader(codec_in))

vars == <<webpack_configuration, settings, pc, result, error, lastIndex,
          hook, h_lastIndex, codec_in, codec_out>>

NotInvoked == [invoked |-> FALSE]

ZeroLastIndex(st) ==
  IF Truthy(st.exclude_from_externals)
  THEN [i \in 1..Len(st.exclude_from_externals.items) |-> 0]
  ELSE <<>>

DefaultLoaders == <<[loader |-> Str(STYLE_LOADER \o BANG \o CSS_LOADER), loaders |-> Undefined]>>

DefaultSettings == [exclude_from_externals |-> Arr(<<Str(<<"a">>)>>)]

\* module.loaders varies
InitLoaders ==
  /\ webpack_configuration \in
       {[context |-> TRUE, resolve |-> Undefined, loaders |-> l] : l \in ModuleLoaders}
  /\ settings = DefaultSettings
  /\ pc = "start"
  /\ codec_in = Undefined

\* context, resolve.alias and exclude_from_externals vary
InitExternals ==
  /\ webpack_configuration \in
       {[context |-> c, resolve |-> r, loaders |-> DefaultLoaders] :
          c \in BOOLEAN, r \in Resolves}
  /\ settings \in {[exclude_from_externals |-> x] : x \in ExclusionLists}
  /\ pc = "start"
  /\ codec_in = Undefined

\* the argument of stringify_loader varies
InitCodec ==
  /\ webpack_configuration = [context |-> TRUE, resolve |-> Undefined, loaders |-> <<>>]
  /\ settings = [exclude_from_externals |-> Undefined]
  /\ pc = "codec"
  /\ codec_in \in LoaderInfos

Init ==
  /\ InitLoaders \/ InitExternals \/ InitCodec
  /\ result = Undefined
  /\ error = "none"
  /\ lastIndex = ZeroLastIndex(settings)
  /\ hook = NotInvoked
  /\ h_lastIndex = ZeroLastIndex(settings)
  /\ codec_out = Undefined

\* a call of configuration(webpack_configuration, settings)
Configuration ==
  /\ pc = "start"
  /\ \E c \in {configuration(webpack_configuration, settings)} :
       /\ pc' = IF c.thrown = "none" THEN "returned" ELSE "thrown"
       /\ result' = c.value
       /\ error' = c.thrown
  /\ UNCHANGED <<webpack_configuration, settings, lastIndex, hook, h_lastIndex,
                 codec_in, codec_out>>

\* the bundler invokes the installed externals hook on a request
Hook(request) ==
  /\ pc = "returned"
  /\ \E r \in {is_external(request, result, settings, lastIndex)} :
       \E h \in {externals_hook(request, r.ret)} :
         /\ hook' = [invoked |-> TRUE, request |-> request, classified |-> r.ret,
                     callbacks |-> h.callbacks, thrown |-> h.thrown]
         /\ lastIndex' = r.lastIndex
  /\ h_lastIndex' = lastIndex
  /\ UNCHANGED <<webpack_configuration, settings, pc, result, error, codec_in, codec_out>>

\* a { name, query } pair is stringified and parsed back
Codec ==
  /\ pc = "codec"
  /\ codec_out = Undefined
  /\ codec_out' = parse_loader(Str(stringify_loader(codec_in)))
  /\ UNCHANGED <<webpack_configuration, settings, pc, result, error, lastIndex,
                 hook, h_lastIndex, codec_in>>

Next ==
  \/ Configuration
  \/ \E request \in Requests : Hook(request)
  \/ Codec

Spec == Init /\ [][Next]_vars


\* ------------------------------------------------------------------------
\* Properties
\* ------------------------------------------------------------------------

\* C1: when every exclusion pattern is a string or a regular expression,
\* is_external returns true exactly when the package name (the request up
\* to its first '/', the whole request without '/') is valid, no alias key
\* equals it, and no pattern matches the request: a string p matches when
\* the request is p or starts with p + '/', a regular expression when its
\* test on the request (at the lastIndex it has when the call starts) is
\* true.  Otherwise it returns false.
C1_ExternalIffNoRuleApplies ==
  hook.invoked =>
    LET request == hook.request
        patterns == IF settings.exclude_from_externals.kind = "array"
                    THEN settings.exclude_from_externals.items ELSE <<>>
        name == CHOOSE p \in {SubSeq(request, 1, n) : n \in 0..Len(request)} :
                  /\ \A i \in 1..Len(p) : p[i] # "/"
                  /\ (p = request \/ request[Len(p) + 1] = "/")
        aliased == /\ webpack_configuration.resolve.kind = "object"
                   /\ webpack_configuration.resolve.alias.kind = "object"
                   /\ name \in webpack_configuration.resolve.alias.keys
        matches(i) ==
          IF patterns[i].kind = "string"
          THEN \/ request = patterns[i].s
               \/ /\ Len(request) > Len(patterns[i].s)
                  /\ SubSeq(request, 1, Len(patterns[i].s) + 1) = patterns[i].s \o <<"/">>
          ELSE RegExpTest(patterns[i], h_lastIndex[i], request).result
    IN (\A i \in 1..Len(patterns) : patterns[i].kind \in {"string", "regexp"}) =>
         /\ hook.classified \in {"true", "false"}
         /\ hook.classified = "true" <=>
              /\ validForNewPackages(name)
              /\ ~aliased
              /\ \A i \in 1..Len(patterns) : ~matches(i)

\* C1 witness: a request classified external against an alias table with a
\* key and an exclusion list of two patterns, a regular expression among them
C1_Witness ==
  /\ hook.invoked
  /\ hook.classified = "true"
  /\ webpack_configuration.resolve.kind = "object"
  /\ webpack_configuration.resolve.alias.kind = "object"
  /\ webpack_configuration.resolve.alias.keys # {}
  /\ settings.exclude_from_externals.kind = "array"
  /\ Len(settings.exclude_from_externals.items) >= 2
  /\ \A i \in 1..Len(settings.exclude_from_externals.items) :
       settings.exclude_from_externals.items[i].kind \in {"string", "regexp"}
  /\ \E i \in 1..Len(settings.exclude_from_externals.items) :
       settings.exclude_from_externals.items[i].kind = "regexp"

\* C2: is_external raises the invalid-exclusion-pattern error exactly when
\* the package name is valid, no alias key equals it, and the exclusion
\* list holds a pattern that is neither a string nor a regular expression
\* with no matching pattern before it; a request with an invalid or
\* aliased package name is internal without error whatever the list holds.
C2_ThrowsIffBadPatternReached ==
  hook.invoked =>
    LET request == hook.request
        patterns == IF settings.exclude_from_externals.kind = "array"
                    THEN settings.exclude_from_externals.items ELSE <<>>
        name == CHOOSE p \in {SubSeq(request, 1, n) : n \in 0..Len(request)} :
                  /\ \A i \in 1..Len(p) : p[i] # "/"
                  /\ (p = request \/ request[Len(p) + 1] = "/")
        aliased == /\ webpack_configuration.resolve.kind = "object"
                   /\ webpack_configuration.resolve.alias.kind = "object"
                   /\ name \in webpack_configuration.resolve.alias.keys
        typed(i) == patterns[i].kind \in {"string", "regexp"}
        matches(i) ==
          IF patterns[i].kind = "string"
          THEN \/ request = patterns[i].s
               \/ /\ Len(request) > Len(patterns[i].s)
                  /\ SubSeq(request, 1, Len(patterns[i].s) + 1) = patterns[i].s \o <<"/">>
          ELSE RegExpTest(patterns[i], h_lastIndex[i], request).result
    IN /\ hook.classified = "throw" <=>
            /\ validForNewPackages(name)
            /\ ~aliased
            /\ \E i \in 1..Len(patterns) :
                 /\ ~typed(i)
                 /\ \A j \in 1..(i - 1) : typed(j) /\ ~matches(j)
       /\ (~validForNewPackages(name) \/ aliased) =>
            hook.classified = "false" /\ hook.thrown = "none"

\* C2 witness: the error is raised by a wrongly typed pattern that stands
\* after a pattern that does not match
C2_Witness ==
  /\ hook.invoked
  /\ hook.classified = "throw"
  /\ hook.thrown = "InvalidExclusionPattern"
  /\ Len(settings.exclude_from_externals.items) >= 2
  /\ settings.exclude_from_externals.items[1].kind = "regexp"
  /\ settings.exclude_from_externals.items[2].kind = "number"

\* C3: two consecutive invocations on the same request, with the same
\* alias table and the same exclusion list, classify it the same way, and
\* the invocation changes no state a later invocation reads (the lastIndex
\* of the regular expressions).
C3_SameRequestSameResult ==
  [][\A request \in Requests :
       (hook.invoked /\ hook.request = request /\ Hook(request)) =>
         (hook'.classified = hook.classified /\ lastIndex' = lastIndex)]_vars

\* C4: a substituted style loader string 'style-loader?<q>' or 'style?<q>'
\* becomes 'fake-style-loader?<q>'.
C4_SubstituteKeepsQuery ==
  pc = "returned" =>
    \A i \in 1..Len(webpack_configuration.loaders) :
      LET before == webpack_configuration.loaders[i]
          after == result.loaders[i]
      IN (before.loaders.kind = "undefined" /\ after.loaders.kind = "array") =>
           \A j \in 1..Len(after.loaders.items) :
             LET segment == Split(before.loader.s, BANG)[j]
                 q == SubstringFrom(segment, IndexOf(segment, QUESTION) + 1)
             IN (/\ is_style_loader(Str(segment))
                 /\ IndexOf(segment, QUESTION) >= 0
                 /\ after.loaders.items[j] # Str(segment)) =>
                  after.loaders.items[j] = Str(FAKE_STYLE_LOADER \o QUESTION \o q)

\* C5: parse_loader(stringify_loader({name, query})) is {name, query} for
\* every pair with a non-empty query mapping.
C5_RoundTrip ==
  codec_out # Undefined => codec_out = codec_in

\* C6: a single loader string of k segments (not an extract-text entry)
\* is removed and replaced by a chain of exactly k elements in the original
\* order, where every segment that is not a style loader stays equal to
\* itself at its own index.
C6_SplitKeepsLengthAndSiblings ==
  pc = "returned" =>
    \A i \in 1..Len(webpack_configuration.loaders) :
      LET before == webpack_configuration.loaders[i]
          after == result.loaders[i]
          loader == before.loader.s
          bangs == {n \in 1..Len(loader) : loader[n] = "!"}
          segment(j) ==
            LET from == IF j = 1 THEN 0
                        ELSE CHOOSE n \in bangs : Cardinality({m \in bangs : m < n}) = j - 2
                to == IF j = Cardinality(bangs) + 1 THEN Len(loader) + 1
                      ELSE CHOOSE n \in bangs : Cardinality({m \in bangs : m < n}) = j - 1
            IN SubSeq(loader, from + 1, to - 1)
      IN (/\ before.loaders.kind = "undefined"
          /\ before.loader.kind = "string"
          /\ IndexOf(loader, EXTRACT_TEXT_MARKER) < 0) =>
           /\ after.loader = Undefined
           /\ after.loaders.kind = "array"
           /\ Len(after.loaders.items) = Cardinality(bangs) + 1
           /\ \A j \in 1..Len(after.loaders.items) :
                ~is_style_loader(Str(segment(j))) =>
                  after.loaders.items[j] = Str(segment(j))

\* C6 witness: 'babel-loader!style-loader!css-loader' has become a chain of
\* three elements of which only the middle one changed
C6_Witness ==
  /\ pc = "returned"
  /\ Len(webpack_configuration.loaders) = 1
  /\ webpack_configuration.loaders[1].loader =
       Str(BABEL_LOADER \o BANG \o STYLE_LOADER \o BANG \o CSS_LOADER)
  /\ result.loaders[1].loaders =
       Arr(<<Str(BABEL_LOADER), Str(FAKE_STYLE_LOADER), Str(CSS_LOADER)>>)

\* C7 as stated: with a wrongly typed exclusion pattern in the settings,
\* configuration() raises the error and returns no configuration.
C7_ConfigurationFailsFast ==
  (/\ pc \in {"returned", "thrown"}
   /\ settings.exclude_from_externals.kind = "array"
   /\ \E i \in 1..Len(settings.exclude_from_externals.items) :
        settings.exclude_from_externals.items[i].kind \notin {"string", "regexp"})
  => (pc = "thrown" /\ error = "InvalidExclusionPattern" /\ result = Undefined)

\* C7 amended: a wrongly typed exclusion pattern never makes
\* configuration() fail: with a context and a loader in every element of
\* module.loaders it returns the configuration with the externals hook
\* installed, and what it raises otherwise is one of its two other errors.
\* The invalid-exclusion-pattern error is raised only later, out of an
\* invocation of the installed hook.
C7_ErrorOnlyFromHook ==
  (/\ pc \in {"returned", "thrown"}
   /\ settings.exclude_from_externals.kind = "array"
   /\ \E i \in 1..Len(settings.exclude_from_externals.items) :
        settings.exclude_from_externals.items[i].kind \notin {"string", "regexp"})
  => /\ error \in {"none", "NoContext", "NoLoaderSpecified"}
     /\ (/\ webpack_configuration.context
         /\ \A i \in 1..Len(webpack_configuration.loaders) :
              \/ webpack_configuration.loaders[i].loaders.kind = "array"
              \/ /\ webpack_configuration.loaders[i].loader.kind = "string"
                 /\ webpack_configuration.loaders[i].loader.s # <<>>)
        => (pc = "returned" /\ result.kind = "configuration" /\ result.externals = 1)
     /\ (hook.invoked /\ hook.thrown = "InvalidExclusionPattern") => pc = "returned"

\* C7 witness: configuration() has returned with a wrongly typed pattern in
\* the settings and an invocation of the hook has raised the error
C7_Witness ==
  /\ pc = "returned"
  /\ result.kind = "configuration"
  /\ hook.invoked
  /\ hook.thrown = "InvalidExclusionPattern"

\* C8: an element of module.loaders whose loader identifier (the single
\* loader string, or an element of an already present chain) contains
\* 'extract-text-webpack-plugin/loader.js' is left unchanged.
C8_ExtractTextUntouched ==
  pc = "returned" =>
    \A i \in 1..Len(webpack_configuration.loaders) :
      LET before == webpack_configuration.loaders[i]
          marked(v) == IF v.kind = "string" THEN IndexOf(v.s, EXTRACT_TEXT_MARKER) >= 0
                       ELSE IF v.kind = "loader" THEN IndexOf(v.loader, EXTRACT_TEXT_MARKER) >= 0
                       ELSE FALSE
      IN (\/ marked(before.loader)
          \/ /\ before.loaders.kind = "array"
             /\ \E j \in 1..Len(before.loaders.items) : marked(before.loaders.items[j]))
         => result.loaders[i] = before

\* C9: after configuration() no element of a processed chain (any chain
\* but that of a skipped extract-text element) is a style loader.
C9_NoStyleLoaderLeft ==
  pc = "returned" =>
    \A i \in 1..Len(webpack_configuration.loaders) :
      LET before == webpack_configuration.loaders[i]
          after == result.loaders[i]
          skipped == /\ before.loaders.kind = "undefined"
                     /\ IndexOf(before.loader.s, EXTRACT_TEXT_MARKER) >= 0
      IN ~skipped =>
           \A j \in 1..Len(after.loaders.items) : ~is_style_loader(after.loaders.items[j])

\* C10: an invocation of the externals hook whose classification does not
\* raise calls the callback exactly once, with (null, request) when the
\* request is external and without arguments when it is not; when the
\* classification raises, the callback is not called and the error leaves
\* the hook as an exception.
C10_CallbackExactlyOnce ==
  hook.invoked =>
    LET ret == is_external(hook.request, result, settings, h_lastIndex).ret
    IN /\ ret = "true" =>
            hook.callbacks = << <<Null, Str(hook.request)>> >> /\ hook.thrown = "none"
       /\ ret = "false" =>
            hook.callbacks = << <<>> >> /\ hook.thrown = "none"
       /\ ret = "throw" =>
            hook.callbacks = <<>> /\ hook.thrown = "InvalidExclusionPattern"

\* C10 witness: an invocation whose classification raised
C10_Witness ==
  /\ hook.invoked
  /\ is_external(hook.request, result, settings, h_lastIndex).ret = "throw"
  /\ hook.callbacks = <<>>

====
